---- MODULE Spec2Model ----
(***************************************************************************)
(* Model of caparoc::ModbusConnection (src/src/modbus_connection.cpp): the *)
(* RAII session around a libmodbus context, its connect/disconnect life    *)
(* cycle, its move operations and the retry-on-data-error executor that    *)
(* wraps the eight read/write primitives.                                  *)
(*                                                                         *)
(* libmodbus itself is a test double: every call into it is recorded in    *)
(* `events` (the calls made by the most recent member-function call) and   *)
(* its results are inputs drawn from small sets of errno codes.            *)
(* Behind the data primitives stands a stub device with a register file    *)
(* and a coil file, behind the socket a peer that may send, close or       *)
(* reset.                                                                  *)
(*                                                                         *)
(* A member function that waits (connect() in modbus_connect and usleep,   *)
(* a data operation in its primitive and in the recv calls of the drain    *)
(* routine) is followed from one wait to the next: `pc` holds the position *)
(* of the thread inside it, and the threads of other instances and the     *)
(* peer take their steps in between. The other member functions do not     *)
(* wait and are one step each.                                             *)
(***************************************************************************)
EXTENDS Integers, Sequences, FiniteSets, TLC

\* ---------------------------------------------------------------- bounds
NumObjs == 2
\* The stub device answers for the addresses 0..MaxAddr.
MaxAddr == 1
\* The peer sends at most MaxSends times on one connection.
MaxSends == 2

Objs == 1..NumObjs
\* Addresses modbus_new_tcp can return: an instance holds at most one context,
\* and the address of a freed context can be handed out again.
Handles == 1..NumObjs
\* The single session of the executor specification (Spec).
SoloObjs == {1}
\* The two sessions of the sessions specification (SpecSessions): a move has
\* one source and one target.
PairObjs == {1, 2}
\* Register and coil addresses of the stub device.
Addrs == 0..MaxAddr
\* The address ranges (address, count) that lie within the device.
Ranges == {r \in Addrs \X (1..(MaxAddr + 1)) : r[1] + r[2] - 1 <= MaxAddr}
\* uint16_t register values and uint8_t coil bytes the callers use.
RegValues == {0, 65535}
CoilBytes == {0, 1}

\* ------------------------------------------------------ program constants
nullptr == 0
max_attempts == 2
\* sizeof(buffer) of the drain routine.
buffer_size == 256
\* Mutant: one connect attempt fewer.
max_retries_one_less == 3 - 1

max_retries == 3

\* errno values the test double reports; OK is "the call did not return -1".
OK == "OK"
EAGAIN == "EAGAIN"
EWOULDBLOCK == EAGAIN
ECONNREFUSED == "ECONNREFUSED"
ETIMEDOUT == "ETIMEDOUT"
EINVAL == "EINVAL"
EMBXILADD == "EMBXILADD"
EMBBADCRC == "EMBBADCRC"
EMBBADDATA == "EMBBADDATA"
EMBBADEXC == "EMBBADEXC"
EMBUNKEXC == "EMBUNKEXC"
EMBMDATA == "EMBMDATA"
EMBBADSLAVE == "EMBBADSLAVE"
ECONNRESET == "ECONNRESET"

\* The five codes is_retryable_modbus_data_error names.
DataTransientCodes == {EMBBADDATA, EMBMDATA, EMBBADCRC, EMBBADEXC, EMBUNKEXC}
\* Failure codes a data primitive may report that are outside that set.
OtherDataCodes == {ETIMEDOUT, EMBXILADD, EMBBADSLAVE}
DataOutcomes == {OK} \cup DataTransientCodes \cup OtherDataCodes
ConnectOutcomes == {OK, EAGAIN, ECONNREFUSED, ETIMEDOUT}

\* A script is what a stubbed call reports, invocation by invocation: its k-th
\* invocation reports script[k], and every invocation beyond the script's end
\* reports its last outcome again.
DataScripts == [1..max_attempts -> DataOutcomes]
ConnectScripts == [1..max_retries -> ConnectOutcomes]
\* The outcomes of the multi-instance specification (SpecOwners): a primitive
\* that succeeds, an open that succeeds or would block.
FewDataOutcomes == {OK}
FewConnectOutcomes == {OK, EAGAIN}
\* The outcomes of the drain specification (SpecDrain).
DrainConnectOutcomes == {OK, EAGAIN, ECONNREFUSED}
\* The outcomes of the device specification (SpecDevice) and of SpecDrain.
DeviceOutcomes == {OK, EMBBADCRC, EMBBADDATA}
\* What the peer sends at once, in bytes.
SendSizes == {1, buffer_size, 2 * buffer_size + 1}

Nth(script, i) == IF i <= Len(script) THEN script[i] ELSE script[Len(script)]

\* modbus_strerror(): libmodbus's own strings, strerror() for everything else.
modbus_strerror(code) ==
    CASE code = EMBXILADD -> "Illegal data address"
      [] code = EMBBADCRC -> "Invalid CRC"
      [] code = EMBBADDATA -> "Invalid data"
      [] code = EMBBADEXC -> "Invalid exception code"
      [] code = EMBMDATA -> "Too many data"
      [] code = EMBBADSLAVE -> "Response not from requested slave"
      [] code = EMBUNKEXC -> "Unknown error 112345693"
      [] code = EAGAIN -> "Resource temporarily unavailable"
      [] code = ECONNREFUSED -> "Connection refused"
      [] code = ETIMEDOUT -> "Connection timed out"
      [] code = EINVAL -> "Invalid argument"
      [] code = ECONNRESET -> "Connection reset by peer"
      [] OTHER -> "Success"

\* ------------------------------------------------------------------ state
VARIABLES
    alive,        \* alive[o]: the instance o is constructed and not destroyed
    ctx_,         \* ctx_[o]: the handle o holds, nullptr when none
    connected_,   \* connected_[o]
    last_error_,  \* last_error_[o]
    transport,    \* transport[h]: state of the libmodbus context h
    moved_from,   \* history: o was the source of a move and has not been
                  \* assigned to, destroyed or constructed anew since
    pc,           \* pc[o]: where the thread inside a member function of o
                  \* stands, and what the call has done so far
    call,         \* the most recent step of a member function: the call and
                  \* its result when it returned in that step
    events,       \* the libmodbus/libc calls that call made, in order
    device,       \* the stub device: its register file and its coil file
    last_written, \* history: per address, the value the device was set up with
                  \* or the value of the latest successful write to it
    io,           \* the caller's side of the most recent data operation: its
                  \* address range and its output buffer before and after
    sock          \* sock[h]: the socket of the context h

vars == <<alive, ctx_, connected_, last_error_, transport, moved_from, pc, call, events,
          device, last_written, io, sock>>

Event(name, h, res) == [ev |-> name, h |-> h, res |-> res]

\* A void member function is recorded with ret = TRUE.
Call(op, self, other, ret) ==
    [op |-> op, self |-> self, other |-> other, ret |-> ret,
     pre_ctx |-> IF self \in Objs THEN ctx_[self] ELSE nullptr,
     pre_connected |-> IF self \in Objs THEN connected_[self] ELSE FALSE,
     pre_moved_from |-> IF self \in Objs THEN moved_from[self] ELSE FALSE]

\* No data operation: nothing was transferred.
NoIO == [addr |-> 0, nb |-> 0, pre |-> <<>>, post |-> <<>>]

\* The socket of a context that is not connected (modbus_get_socket gives -1),
\* and the socket modbus_connect opens. `buffered` counts the unread bytes,
\* `err` is the error pending on the socket (OK when none), `discarded` counts
\* what the drain routine has read away since it was last entered.
NoSocket ==
    [fd |-> -1, buffered |-> 0, discarded |-> 0, sends |-> 0, peer |-> "none", err |-> OK]
NewSocket(h) ==
    [fd |-> h, buffered |-> 0, discarded |-> 0, sends |-> 0, peer |-> "open", err |-> OK]

\* The caller's side of a data operation: address, count, the output buffer as
\* it is before the call, the values a write stores (data) and the values it
\* hands to the primitive (values).
NoArgs == [addr |-> 0, nb |-> 0, out |-> <<>>, data |-> <<>>, values |-> <<>>]

\* No call of the instance is under way. Inside a call: the blocking call the
\* thread is in (at), the member function (op), the loop counter (attempt),
\* the library calls made so far (events), and for a data operation what the
\* caller passed, the executor's arguments and the descriptor the drain
\* routine has obtained.
NoThread ==
    [at |-> "idle", op |-> "none", attempt |-> 0, events |-> <<>>, args |-> NoArgs,
     error_prefix |-> "", prim |-> "", socket_fd |-> -1]

\* What `call` records for a step in which the call did not return.
RUNNING == "(running)"

Init ==
    /\ alive = [o \in Objs |-> FALSE]
    /\ ctx_ = [o \in Objs |-> nullptr]
    /\ connected_ = [o \in Objs |-> FALSE]
    /\ last_error_ = [o \in Objs |-> ""]
    /\ transport = [h \in Handles |-> "unallocated"]
    /\ moved_from = [o \in Objs |-> FALSE]
    /\ pc = [o \in Objs |-> NoThread]
    /\ call = [op |-> "none", self |-> 0, other |-> 0, ret |-> TRUE,
               pre_ctx |-> nullptr, pre_connected |-> FALSE, pre_moved_from |-> FALSE]
    /\ events = <<>>
    /\ device = [regs |-> [a \in Addrs |-> 0], coils |-> [a \in Addrs |-> 0]]
    /\ last_written = [regs |-> [a \in Addrs |-> 0], coils |-> [a \in Addrs |-> FALSE]]
    /\ io = NoIO
    /\ sock = [h \in Handles |-> NoSocket]

\* ------------------------------------------------------- the test double
\* modbus_close(h) on the context table.
modbus_close(tr, h) ==
    [tr EXCEPT ![h] = IF tr[h] \in {"open", "closed"} THEN "closed" ELSE "use_after_free"]

\* modbus_free(h) on the context table.
modbus_free(tr, h) ==
    [tr EXCEPT ![h] = IF tr[h] \in {"open", "closed"} THEN "unallocated" ELSE "double_free"]

\* Apply the close/free/open events of one call to the context table.
RECURSIVE ApplyEvents(_, _)
ApplyEvents(tr, evs) ==
    IF evs = <<>> THEN tr
    ELSE LET e == Head(evs)
             tr1 == CASE e.ev = "modbus_close" -> modbus_close(tr, e.h)
                      [] e.ev = "modbus_free" -> modbus_free(tr, e.h)
                      [] e.ev = "modbus_connect" /\ e.res = OK ->
                            [tr EXCEPT ![e.h] = "open"]
                      [] e.ev = "modbus_new_tcp" /\ e.h # nullptr ->
                            [tr EXCEPT ![e.h] = "closed"]
                      [] OTHER -> tr
         IN ApplyEvents(tr1, Tail(evs))

\* The sockets after the open and close events of one call.
RECURSIVE ApplySockets(_, _)
ApplySockets(sk, evs) ==
    IF evs = <<>> THEN sk
    ELSE LET e == Head(evs)
             sk1 == CASE e.ev = "modbus_close" -> [sk EXCEPT ![e.h] = NoSocket]
                      [] e.ev = "modbus_connect" /\ e.res = OK ->
                            [sk EXCEPT ![e.h] = NewSocket(e.h)]
                      [] OTHER -> sk
         IN ApplySockets(sk1, Tail(evs))

\* modbus_get_socket(ctx): the descriptor of the socket of the context, or -1
\* when the double holds none.
modbus_get_socket(sk, h, has_socket) == IF has_socket THEN sk[h].fd ELSE -1

\* The stub device behind the data primitives. A successful invocation
\* transfers nb items starting at addr; an invocation that reports failure
\* touches neither the device nor the destination buffer.
modbus_read_registers(dev, addr, nb) == [i \in 1..nb |-> dev.regs[addr + i - 1]]

modbus_write_registers(dev, addr, nb, src) ==
    [dev EXCEPT !.regs = [a \in Addrs |-> IF a \in addr..(addr + nb - 1)
                                          THEN src[a - addr + 1]
                                          ELSE dev.regs[a]]]

modbus_write_register(dev, addr, value) == [dev EXCEPT !.regs[addr] = value]

modbus_read_bits(dev, addr, nb) == [i \in 1..nb |-> dev.coils[addr + i - 1]]

modbus_write_bits(dev, addr, nb, src) ==
    [dev EXCEPT !.coils = [a \in Addrs |-> IF a \in addr..(addr + nb - 1)
                                           THEN (IF src[a - addr + 1] # 0 THEN 1 ELSE 0)
                                           ELSE dev.coils[a]]]

modbus_write_bit(dev, addr, status) ==
    [dev EXCEPT !.coils[addr] = IF status # 0 THEN 1 ELSE 0]

\* A step that is none of a data operation transfers nothing; the sockets
\* follow the open and close events of the call that returned in it.
NoTransfer ==
    /\ io' = NoIO
    /\ sock' = ApplySockets(sock, events')
    /\ UNCHANGED <<device, last_written>>

\* The thread inside o does not return in this step: p is where it stands next.
GoesOn(o, p) ==
    /\ pc' = [pc EXCEPT ![o] = p]
    /\ call' = Call(RUNNING, 0, 0, TRUE)
    /\ events' = <<>>

FreshHandle == CHOOSE h \in Handles :
                  /\ transport[h] = "unallocated"
                  /\ \A g \in Handles : transport[g] = "unallocated" => h <= g

\* --------------------------------------------------------- the executor
\* Mutant: the classifier forgets EMBMDATA.
is_retryable_without_mdata(error_code) ==
    \/ error_code = EMBBADDATA
    \/ error_code = EMBBADCRC
    \/ error_code = EMBBADEXC
    \/ error_code = EMBUNKEXC

\* Mutant: the classifier takes every failure code for a transient one.
is_retryable_any_code(error_code) == error_code # OK

is_retryable_modbus_data_error(error_code) ==
    \/ error_code = EMBBADDATA
    \/ error_code = EMBMDATA
    \/ error_code = EMBBADCRC
    \/ error_code = EMBBADEXC
    \/ error_code = EMBUNKEXC

DRAIN == "drain_socket_nonblocking"

Min(a, b) == IF a <= b THEN a ELSE b

\* recv(fd, buffer, sizeof(buffer), MSG_DONTWAIT) on the socket sk, and the
\* socket after it: up to sizeof(buffer) of the unread bytes while there are
\* any; else the pending error, which the call reports once and clears; else
\* end of stream when the peer has closed or reset; else would-block. errno
\* is meaningful only when bytes_read is -1.
recv(sk) ==
    IF sk.buffered > 0
    THEN [bytes_read |-> Min(sk.buffered, buffer_size), errno |-> OK,
          sock |-> [sk EXCEPT !.buffered = @ - Min(sk.buffered, buffer_size)]]
    ELSE IF sk.err # OK
    THEN [bytes_read |-> -1, errno |-> sk.err, sock |-> [sk EXCEPT !.err = OK]]
    ELSE IF sk.peer \in {"closed", "reset"}
    THEN [bytes_read |-> 0, errno |-> OK, sock |-> sk]
    ELSE [bytes_read |-> -1, errno |-> EAGAIN, sock |-> sk]

\* Mutant: the loop retries a transient failure on every iteration, not only
\* on the first one.
RetryLoop_any_attempt(attempt, error_code, last_error, error_prefix, evs) ==
    IF error_code = OK
    THEN [next |-> "return", ret |-> TRUE, last_error |-> last_error]
    ELSE IF is_retryable_modbus_data_error(error_code)
    THEN [next |-> "drain", ret |-> FALSE, last_error |-> last_error]
    ELSE [next |-> "return", ret |-> FALSE,
          last_error |-> error_prefix \o modbus_strerror(error_code)]

\* Mutant: a failure of the second attempt is reported with the code of the
\* first attempt.
RetryLoop_reports_first_code(attempt, error_code, last_error, error_prefix, evs) ==
    IF error_code = OK
    THEN [next |-> "return", ret |-> TRUE, last_error |-> last_error]
    ELSE IF attempt = 0 /\ is_retryable_modbus_data_error(error_code)
    THEN [next |-> "drain", ret |-> FALSE, last_error |-> last_error]
    ELSE [next |-> "return", ret |-> FALSE,
          last_error |-> error_prefix \o
                         modbus_strerror(IF evs = <<>> THEN error_code ELSE evs[1].res)]

\* Mutant: the transient failure of the first attempt is written to last_error
\* before the retry.
RetryLoop_records_transient(attempt, error_code, last_error, error_prefix, evs) ==
    IF error_code = OK
    THEN [next |-> "return", ret |-> TRUE, last_error |-> last_error]
    ELSE IF attempt = 0 /\ is_retryable_modbus_data_error(error_code)
    THEN [next |-> "drain", ret |-> FALSE,
          last_error |-> error_prefix \o modbus_strerror(error_code)]
    ELSE [next |-> "return", ret |-> FALSE,
          last_error |-> error_prefix \o modbus_strerror(error_code)]

\* The body of the for loop of execute_with_data_error_retry in iteration
\* `attempt`, once operation() has reported error_code (OK when it did not
\* return -1): return true, drain and go round again, or set last_error and
\* return false. `evs` are the calls the executor has made before.
RetryLoop(attempt, error_code, last_error, error_prefix, evs) ==
    IF error_code = OK
    THEN [next |-> "return", ret |-> TRUE, last_error |-> last_error]
    ELSE IF attempt = 0 /\ is_retryable_modbus_data_error(error_code)
    THEN [next |-> "drain", ret |-> FALSE, last_error |-> last_error]
    ELSE [next |-> "return", ret |-> FALSE,
          last_error |-> error_prefix \o modbus_strerror(error_code)]

RegisterWrites == {"write_register", "write_registers"}
CoilWrites == {"write_coil", "write_coils"}

\* The history of written values after a successful call of op: a write stores
\* the caller's values (args.data) at its addresses, a read stores nothing.
Written(lw, op, args) ==
    LET stored(file) == [a \in Addrs |-> IF a \in args.addr..(args.addr + args.nb - 1)
                                         THEN args.data[a - args.addr + 1]
                                         ELSE file[a]]
    IN CASE op \in RegisterWrites -> [lw EXCEPT !.regs = stored(lw.regs)]
         [] op \in CoilWrites -> [lw EXCEPT !.coils = stored(lw.coils)]
         [] OTHER -> lw

\* What a successful invocation of the operation() of op leaves: the device
\* and the caller's output. read_coil() reads into the local coil_value and
\* converts it.
operation(op, args, dev) ==
    CASE op = "read_register" ->
            [device |-> dev, out |-> modbus_read_registers(dev, args.addr, 1)]
      [] op = "read_registers" ->
            [device |-> dev, out |-> modbus_read_registers(dev, args.addr, args.nb)]
      [] op = "write_register" ->
            [device |-> modbus_write_register(dev, args.addr, args.values[1]),
             out |-> <<>>]
      [] op = "write_registers" ->
            [device |-> modbus_write_registers(dev, args.addr, args.nb, args.values),
             out |-> <<>>]
      [] op = "read_coil" ->
            LET coil_value == modbus_read_bits(dev, args.addr, 1)[1]
            IN [device |-> dev, out |-> <<coil_value # 0>>]
      [] op = "read_coils" ->
            [device |-> dev, out |-> modbus_read_bits(dev, args.addr, args.nb)]
      [] op = "write_coil" ->
            [device |-> modbus_write_bit(dev, args.addr, args.values[1]), out |-> <<>>]
      [] op = "write_coils" ->
            [device |-> modbus_write_bits(dev, args.addr, args.nb, args.values),
             out |-> <<>>]

\* Mutant: the precondition tests the handle instead of the connected flag.
DataOperation_tests_ctx(o, op, error_prefix, prim, args) ==
    /\ alive[o]
    /\ pc[o] = NoThread
    /\ IF ctx_[o] = nullptr
       THEN /\ last_error_' = [last_error_ EXCEPT ![o] = "Not connected"]
            /\ call' = Call(op, o, 0, FALSE)
            /\ events' = <<>>
            /\ io' = [addr |-> args.addr, nb |-> args.nb, pre |-> args.out,
                      post |-> args.out]
            /\ pc' = pc
       ELSE /\ GoesOn(o, [NoThread EXCEPT !.at = "operation", !.op = op, !.args = args,
                                          !.error_prefix = error_prefix, !.prim = prim])
            /\ io' = NoIO
            /\ UNCHANGED last_error_
    /\ UNCHANGED <<alive, ctx_, connected_, transport, moved_from, sock, device,
                   last_written>>

\* The common entry of the eight data operations: the precondition, then
\* execute_with_data_error_retry up to its first invocation of operation(), in
\* which the thread waits for the device.
DataOperation(o, op, error_prefix, prim, args) ==
    /\ alive[o]
    /\ pc[o] = NoThread
    /\ IF ~connected_[o]
       THEN /\ last_error_' = [last_error_ EXCEPT ![o] = "Not connected"]
            /\ call' = Call(op, o, 0, FALSE)
            /\ events' = <<>>
            /\ io' = [addr |-> args.addr, nb |-> args.nb, pre |-> args.out,
                      post |-> args.out]
            /\ pc' = pc
       ELSE /\ GoesOn(o, [NoThread EXCEPT !.at = "operation", !.op = op, !.args = args,
                                          !.error_prefix = error_prefix, !.prim = prim])
            /\ io' = NoIO
            /\ UNCHANGED last_error_
    /\ UNCHANGED <<alive, ctx_, connected_, transport, moved_from, sock, device,
                   last_written>>

read_register(o, address, value) ==
    DataOperation(o, "read_register", "Read failed: ", "modbus_read_registers",
                  [addr |-> address, nb |-> 1, out |-> <<value>>, data |-> <<>>,
                   values |-> <<>>])

read_registers(o, address, count, values) ==
    DataOperation(o, "read_registers", "Read failed: ", "modbus_read_registers",
                  [addr |-> address, nb |-> count, out |-> values, data |-> <<>>,
                   values |-> <<>>])

write_register(o, address, value) ==
    DataOperation(o, "write_register", "Write failed: ", "modbus_write_register",
                  [addr |-> address, nb |-> 1, out |-> <<>>, data |-> <<value>>,
                   values |-> <<value>>])

write_registers(o, address, count, values) ==
    DataOperation(o, "write_registers", "Write failed: ", "modbus_write_registers",
                  [addr |-> address, nb |-> count, out |-> <<>>, data |-> values,
                   values |-> values])

read_coil(o, address, value) ==
    DataOperation(o, "read_coil", "Read coil failed: ", "modbus_read_bits",
                  [addr |-> address, nb |-> 1, out |-> <<value>>, data |-> <<>>,
                   values |-> <<>>])

read_coils(o, address, count, values) ==
    DataOperation(o, "read_coils", "Read coils failed: ", "modbus_read_bits",
                  [addr |-> address, nb |-> count, out |-> values, data |-> <<>>,
                   values |-> <<>>])

\* Mutant: write_coil() sends the opposite of the requested state.
write_coil_inverted(o, address, state) ==
    DataOperation(o, "write_coil", "Write coil failed: ", "modbus_write_bit",
                  [addr |-> address, nb |-> 1, out |-> <<>>, data |-> <<state>>,
                   values |-> <<IF state THEN 0 ELSE 1>>])

\* The primitive is handed state ? 1 : 0.
write_coil(o, address, state) ==
    DataOperation(o, "write_coil", "Write coil failed: ", "modbus_write_bit",
                  [addr |-> address, nb |-> 1, out |-> <<>>, data |-> <<state>>,
                   values |-> <<IF state THEN 1 ELSE 0>>])

write_coils(o, address, count, values) ==
    DataOperation(o, "write_coils", "Write coils failed: ", "modbus_write_bits",
                  [addr |-> address, nb |-> count, out |-> <<>>,
                   data |-> [i \in 1..count |-> values[i] # 0],
                   values |-> values])

DataOps == {"read_register", "read_registers", "write_register", "write_registers",
            "read_coil", "read_coils", "write_coil", "write_coils"}

\* The step of a data operation that does not return: nothing is transferred
\* and no member but last_error can have been written.
DataOperationGoesOn(o, p, last_error) ==
    /\ GoesOn(o, p)
    /\ last_error_' = [last_error_ EXCEPT ![o] = last_error]
    /\ io' = NoIO
    /\ UNCHANGED <<connected_, device, last_written>>

\* Mutant: a failed data operation also drops the connected flag.
DataOperationReturns_drops_connection(o, ret, last_error, evs) ==
    LET p == pc[o]
        done == operation(p.op, p.args, device)
    IN /\ pc' = [pc EXCEPT ![o] = NoThread]
       /\ last_error_' = [last_error_ EXCEPT ![o] = last_error]
       /\ connected_' = [connected_ EXCEPT ![o] = connected_[o] /\ ret]
       /\ call' = Call(p.op, o, 0, ret)
       /\ events' = evs
       /\ device' = IF ret THEN done.device ELSE device
       /\ last_written' = IF ret THEN Written(last_written, p.op, p.args)
                          ELSE last_written
       /\ io' = [addr |-> p.args.addr, nb |-> p.args.nb, pre |-> p.args.out,
                 post |-> IF ret THEN done.out ELSE p.args.out]

\* Mutant: the caller's output is assigned whether or not the call succeeded.
DataOperationReturns_assigns_output_anyway(o, ret, last_error, evs) ==
    LET p == pc[o]
        done == operation(p.op, p.args, device)
    IN /\ pc' = [pc EXCEPT ![o] = NoThread]
       /\ last_error_' = [last_error_ EXCEPT ![o] = last_error]
       /\ call' = Call(p.op, o, 0, ret)
       /\ events' = evs
       /\ device' = IF ret THEN done.device ELSE device
       /\ last_written' = IF ret THEN Written(last_written, p.op, p.args)
                          ELSE last_written
       /\ io' = [addr |-> p.args.addr, nb |-> p.args.nb, pre |-> p.args.out,
                 post |-> done.out]
       /\ UNCHANGED connected_

\* The executor returns ret to the data operation, which returns it to its
\* caller. The primitive transfers only when it succeeds, so a call that
\* fails leaves device and output as they were.
DataOperationReturns(o, ret, last_error, evs) ==
    LET p == pc[o]
        done == operation(p.op, p.args, device)
    IN /\ pc' = [pc EXCEPT ![o] = NoThread]
       /\ last_error_' = [last_error_ EXCEPT ![o] = last_error]
       /\ call' = Call(p.op, o, 0, ret)
       /\ events' = evs
       /\ device' = IF ret THEN done.device ELSE device
       /\ last_written' = IF ret THEN Written(last_written, p.op, p.args)
                          ELSE last_written
       /\ io' = [addr |-> p.args.addr, nb |-> p.args.nb, pre |-> p.args.out,
                 post |-> IF ret THEN done.out ELSE p.args.out]
       /\ UNCHANGED connected_

\* operation() returns inside execute_with_data_error_retry: error_code is OK
\* or the errno of its failure. The executor returns, or calls the drain
\* routine before it goes round again.
operation_returns(o, error_code) ==
    /\ pc[o].at = "operation"
    /\ LET p == pc[o]
           evs1 == Append(p.events, Event(p.prim, ctx_[o], error_code))
           r == RetryLoop(p.attempt, error_code, last_error_[o], p.error_prefix, p.events)
       IN IF r.next = "drain"
          THEN DataOperationGoesOn(o, [p EXCEPT !.at = DRAIN, !.events = evs1],
                                   r.last_error)
          ELSE DataOperationReturns(o, r.ret, r.last_error, evs1)
    /\ UNCHANGED <<alive, ctx_, transport, moved_from, sock>>

\* `continue` after the drain routine has returned with the thread at p: the
\* next iteration of the for loop invokes operation() again; behind the loop
\* the executor sets "retry exhausted" and returns false.
Continue(o, p) ==
    LET evs1 == Append(p.events, Event(DRAIN, ctx_[o], "void"))
    IN IF p.attempt + 1 < max_attempts
       THEN DataOperationGoesOn(o, [p EXCEPT !.at = "operation", !.attempt = @ + 1,
                                             !.events = evs1],
                                last_error_[o])
       ELSE DataOperationReturns(o, FALSE, p.error_prefix \o "retry exhausted", evs1)

\* drain_socket_nonblocking(ctx) from its entry to the loop: it returns at
\* once when the context has no socket.
drain_socket_nonblocking(o, has_socket) ==
    /\ pc[o].at = DRAIN
    /\ LET h == ctx_[o]
           socket_fd == modbus_get_socket(sock, h, has_socket)
       IN IF socket_fd < 0
          THEN /\ Continue(o, [pc[o] EXCEPT !.socket_fd = socket_fd])
               /\ sock' = sock
          ELSE /\ DataOperationGoesOn(o, [pc[o] EXCEPT !.at = "recv",
                                                       !.socket_fd = socket_fd],
                                      last_error_[o])
               /\ sock' = [sock EXCEPT ![h].discarded = 0]
    /\ UNCHANGED <<alive, ctx_, transport, moved_from>>

\* Mutant: the loop goes on after would-block instead of returning.
drain_recv_spins_on_would_block(o) ==
    /\ pc[o].at = "recv"
    /\ LET h == ctx_[o]
           r == recv(sock[h])
       IN IF r.bytes_read > 0
          THEN /\ sock' = [sock EXCEPT ![h] = [r.sock EXCEPT !.discarded = @ + r.bytes_read]]
               /\ DataOperationGoesOn(o, pc[o], last_error_[o])
          ELSE IF r.bytes_read = 0
          THEN /\ sock' = [sock EXCEPT ![h] = r.sock]
               /\ Continue(o, pc[o])
          ELSE IF r.errno = EAGAIN \/ r.errno = EWOULDBLOCK
          THEN /\ sock' = [sock EXCEPT ![h] = r.sock]
               /\ DataOperationGoesOn(o, pc[o], last_error_[o])
          ELSE /\ sock' = [sock EXCEPT ![h] = r.sock]
               /\ Continue(o, pc[o])
    /\ UNCHANGED <<alive, ctx_, transport, moved_from>>

\* Mutant: the routine returns after its first read, whatever is still buffered.
drain_recv_reads_once(o) ==
    /\ pc[o].at = "recv"
    /\ LET h == ctx_[o]
           r == recv(sock[h])
       IN IF r.bytes_read > 0
          THEN /\ sock' = [sock EXCEPT ![h] = [r.sock EXCEPT !.discarded = @ + r.bytes_read]]
               /\ Continue(o, pc[o])
          ELSE IF r.bytes_read = 0
          THEN /\ sock' = [sock EXCEPT ![h] = r.sock]
               /\ Continue(o, pc[o])
          ELSE IF r.errno = EAGAIN \/ r.errno = EWOULDBLOCK
          THEN /\ sock' = [sock EXCEPT ![h] = r.sock]
               /\ Continue(o, pc[o])
          ELSE /\ sock' = [sock EXCEPT ![h] = r.sock]
               /\ Continue(o, pc[o])
    /\ UNCHANGED <<alive, ctx_, transport, moved_from>>

\* One iteration of the while (true) loop of drain_socket_nonblocking: a read
\* that returned bytes discards them and goes round again; end of stream,
\* would-block and any other error return to the executor.
drain_recv(o) ==
    /\ pc[o].at = "recv"
    /\ LET h == ctx_[o]
           r == recv(sock[h])
       IN IF r.bytes_read > 0
          THEN /\ sock' = [sock EXCEPT ![h] = [r.sock EXCEPT !.discarded = @ + r.bytes_read]]
               /\ DataOperationGoesOn(o, pc[o], last_error_[o])
          ELSE IF r.bytes_read = 0
          THEN /\ sock' = [sock EXCEPT ![h] = r.sock]
               /\ Continue(o, pc[o])
          ELSE IF r.errno = EAGAIN \/ r.errno = EWOULDBLOCK
          THEN /\ sock' = [sock EXCEPT ![h] = r.sock]
               /\ Continue(o, pc[o])
          ELSE /\ sock' = [sock EXCEPT ![h] = r.sock]
               /\ Continue(o, pc[o])
    /\ UNCHANGED <<alive, ctx_, transport, moved_from>>

\* ------------------------------------------------------ session life cycle
\* A member function (the destructor and the moves included) is entered only
\* when no other call of the instance is under way: an instance is used by
\* one thread at a time.
\* ModbusConnection(ip_address, port): modbus_new_tcp either allocates or not.
Constructor(o, alloc_ok) ==
    /\ pc[o] = NoThread
    /\ UNCHANGED pc
    /\ ~alive[o]
    /\ alloc_ok => \E h \in Handles : transport[h] = "unallocated"
    /\ LET h == IF alloc_ok THEN FreshHandle ELSE nullptr
           evs == <<Event("modbus_new_tcp", h, IF alloc_ok THEN OK ELSE "ENOMEM")>>
       IN /\ alive' = [alive EXCEPT ![o] = TRUE]
          /\ ctx_' = [ctx_ EXCEPT ![o] = h]
          /\ connected_' = [connected_ EXCEPT ![o] = FALSE]
          /\ last_error_' = [last_error_ EXCEPT ![o] =
                                IF h = nullptr THEN "Failed to create MODBUS context" ELSE ""]
          /\ transport' = ApplyEvents(transport, evs)
          /\ moved_from' = [moved_from EXCEPT ![o] = FALSE]
          /\ call' = Call("ModbusConnection", o, 0, TRUE)
          /\ events' = evs
    /\ NoTransfer

\* Mutant: disconnect() closes the transport and leaves the flag set.
DisconnectBody_keeps_flag(h, conn) ==
    IF h # nullptr /\ conn
    THEN [connected |-> conn, events |-> <<Event("modbus_close", h, OK)>>]
    ELSE [connected |-> conn, events |-> <<>>]

\* Mutant: disconnect() closes whatever handle it holds, connected or not.
DisconnectBody_ignores_flag(h, conn) ==
    IF h # nullptr
    THEN [connected |-> FALSE, events |-> <<Event("modbus_close", h, OK)>>]
    ELSE [connected |-> conn, events |-> <<>>]

\* The effect of disconnect() on (connected, events).
DisconnectBody(h, conn) ==
    IF h # nullptr /\ conn
    THEN [connected |-> FALSE, events |-> <<Event("modbus_close", h, OK)>>]
    ELSE [connected |-> conn, events |-> <<>>]

disconnect(o) ==
    /\ pc[o] = NoThread
    /\ UNCHANGED pc
    /\ alive[o]
    /\ LET r == DisconnectBody(ctx_[o], connected_[o])
       IN /\ connected_' = [connected_ EXCEPT ![o] = r.connected]
          /\ transport' = ApplyEvents(transport, r.events)
          /\ call' = Call("disconnect", o, 0, TRUE)
          /\ events' = r.events
    /\ UNCHANGED <<alive, ctx_, last_error_, moved_from>>
    /\ NoTransfer

\* The teardown shared by the destructor and move assignment: disconnect when
\* connected, then free a non-null handle.
Teardown(h, conn) ==
    LET d == IF conn THEN DisconnectBody(h, conn) ELSE [connected |-> conn, events |-> <<>>]
    IN [connected |-> d.connected,
        events |-> d.events \o
                   (IF h # nullptr THEN <<Event("modbus_free", h, OK)>> ELSE <<>>)]

\* ~ModbusConnection(): the instance is gone afterwards; its slot is reset.
Destructor(o) ==
    /\ pc[o] = NoThread
    /\ UNCHANGED pc
    /\ alive[o]
    /\ LET t == Teardown(ctx_[o], connected_[o])
       IN /\ transport' = ApplyEvents(transport, t.events)
          /\ events' = t.events
    /\ alive' = [alive EXCEPT ![o] = FALSE]
    /\ ctx_' = [ctx_ EXCEPT ![o] = nullptr]
    /\ connected_' = [connected_ EXCEPT ![o] = FALSE]
    /\ last_error_' = [last_error_ EXCEPT ![o] = ""]
    /\ moved_from' = [moved_from EXCEPT ![o] = FALSE]
    /\ call' = Call("~ModbusConnection", o, 0, TRUE)
    /\ NoTransfer

\* Mutant: would-block is retried on the final attempt too.
ConnectLoop_sleeps_on_last(attempt, err, last_error) ==
    IF err = OK
    THEN [next |-> "return", ret |-> TRUE, connected |-> TRUE, last_error |-> last_error]
    ELSE IF err = EWOULDBLOCK \/ err = EAGAIN
    THEN [next |-> "usleep", ret |-> FALSE, connected |-> FALSE, last_error |-> last_error]
    ELSE [next |-> "return", ret |-> FALSE, connected |-> FALSE,
          last_error |-> "Connection failed: " \o modbus_strerror(err)]

\* Mutant: every failure is retried, not only would-block.
ConnectLoop_retries_any_error(attempt, err, last_error) ==
    IF err = OK
    THEN [next |-> "return", ret |-> TRUE, connected |-> TRUE, last_error |-> last_error]
    ELSE IF attempt < max_retries - 1
    THEN [next |-> "usleep", ret |-> FALSE, connected |-> FALSE, last_error |-> last_error]
    ELSE [next |-> "return", ret |-> FALSE, connected |-> FALSE,
          last_error |-> "Connection failed: " \o modbus_strerror(err)]

\* The body of the for loop of connect() in iteration `attempt`, once
\* modbus_connect has reported err (OK when it returned 0): set connected and
\* return true, sleep and go round again, or set last_error and return false.
ConnectLoop(attempt, err, last_error) ==
    IF err = OK
    THEN [next |-> "return", ret |-> TRUE, connected |-> TRUE, last_error |-> last_error]
    ELSE IF (err = EWOULDBLOCK \/ err = EAGAIN) /\ attempt < max_retries - 1
    THEN [next |-> "usleep", ret |-> FALSE, connected |-> FALSE, last_error |-> last_error]
    ELSE [next |-> "return", ret |-> FALSE, connected |-> FALSE,
          last_error |-> "Connection failed: " \o modbus_strerror(err)]

\* connect() returns ret, having made the calls evs.
ConnectReturns(o, ret, connected, last_error, evs) ==
    /\ pc' = [pc EXCEPT ![o] = NoThread]
    /\ connected_' = [connected_ EXCEPT ![o] = connected]
    /\ last_error_' = [last_error_ EXCEPT ![o] = last_error]
    /\ transport' = ApplyEvents(transport, evs)
    /\ call' = Call("connect", o, 0, ret)
    /\ events' = evs

\* connect() does not return in this step and has written no member.
ConnectGoesOn(o, p) ==
    /\ GoesOn(o, p)
    /\ UNCHANGED <<connected_, last_error_, transport>>

\* Mutant: connect() without the already-connected shortcut.
connect_without_shortcut(o) ==
    /\ alive[o]
    /\ pc[o] = NoThread
    /\ IF ctx_[o] = nullptr
       THEN ConnectReturns(o, FALSE, connected_[o], "Invalid MODBUS context", <<>>)
       ELSE ConnectGoesOn(o, [NoThread EXCEPT !.at = "modbus_connect", !.op = "connect"])
    /\ UNCHANGED <<alive, ctx_, moved_from>>
    /\ NoTransfer

\* Mutant: connect() reports a null handle as opened.
connect_opens_null_handle(o) ==
    /\ alive[o]
    /\ pc[o] = NoThread
    /\ IF ctx_[o] = nullptr
       THEN ConnectReturns(o, TRUE, TRUE, last_error_[o], <<>>)
       ELSE IF connected_[o]
       THEN ConnectReturns(o, TRUE, connected_[o], last_error_[o], <<>>)
       ELSE ConnectGoesOn(o, [NoThread EXCEPT !.at = "modbus_connect", !.op = "connect"])
    /\ UNCHANGED <<alive, ctx_, moved_from>>
    /\ NoTransfer

\* connect() from its entry to the first modbus_connect, in which the thread
\* waits for the transport; it returns at once on a null handle and on a
\* session that is connected.
connect(o) ==
    /\ alive[o]
    /\ pc[o] = NoThread
    /\ IF ctx_[o] = nullptr
       THEN ConnectReturns(o, FALSE, connected_[o], "Invalid MODBUS context", <<>>)
       ELSE IF connected_[o]
       THEN ConnectReturns(o, TRUE, connected_[o], last_error_[o], <<>>)
       ELSE ConnectGoesOn(o, [NoThread EXCEPT !.at = "modbus_connect", !.op = "connect"])
    /\ UNCHANGED <<alive, ctx_, moved_from>>
    /\ NoTransfer

\* modbus_connect returns inside connect(): err is OK or the errno of its
\* failure. connect() returns, or enters usleep(100000).
modbus_connect_returns(o, err) ==
    /\ pc[o].at = "modbus_connect"
    /\ LET p == pc[o]
           evs1 == Append(p.events, Event("modbus_connect", ctx_[o], err))
           r == ConnectLoop(p.attempt, err, last_error_[o])
       IN IF r.next = "usleep"
          THEN ConnectGoesOn(o, [p EXCEPT !.at = "usleep",
                                          !.events = Append(evs1,
                                                            Event("usleep", ctx_[o], "100000"))])
          ELSE ConnectReturns(o, r.ret, r.connected, r.last_error, evs1)
    /\ UNCHANGED <<alive, ctx_, moved_from>>
    /\ NoTransfer

\* usleep returns inside connect(): `continue` leads to the next iteration
\* of the for loop and its modbus_connect; behind the loop connect() returns
\* false.
usleep_returns(o) ==
    /\ pc[o].at = "usleep"
    /\ LET p == pc[o]
       IN IF p.attempt + 1 < max_retries
          THEN ConnectGoesOn(o, [p EXCEPT !.at = "modbus_connect", !.attempt = @ + 1])
          ELSE ConnectReturns(o, FALSE, connected_[o], last_error_[o], p.events)
    /\ UNCHANGED <<alive, ctx_, moved_from>>
    /\ NoTransfer

\* Mutant: set_slave_id() hands a null handle to modbus_set_slave.
set_slave_id_without_null_check(o, res) ==
    /\ pc[o] = NoThread
    /\ UNCHANGED pc
    /\ alive[o]
    /\ LET r == IF res # OK
                THEN [ret |-> FALSE,
                      last_error |-> "Set slave failed: " \o modbus_strerror(res),
                      events |-> <<Event("modbus_set_slave", ctx_[o], res)>>]
                ELSE [ret |-> TRUE, last_error |-> last_error_[o],
                      events |-> <<Event("modbus_set_slave", ctx_[o], res)>>]
       IN /\ last_error_' = [last_error_ EXCEPT ![o] = r.last_error]
          /\ call' = Call("set_slave_id", o, 0, r.ret)
          /\ events' = r.events
    /\ UNCHANGED <<alive, ctx_, connected_, transport, moved_from>>
    /\ NoTransfer

\* set_slave_id(slave_id): `res` is what modbus_set_slave reports for the id.
set_slave_id(o, res) ==
    /\ pc[o] = NoThread
    /\ UNCHANGED pc
    /\ alive[o]
    /\ LET r == IF ctx_[o] = nullptr
                THEN [ret |-> FALSE, last_error |-> "Invalid MODBUS context", events |-> <<>>]
                ELSE IF res # OK
                THEN [ret |-> FALSE,
                      last_error |-> "Set slave failed: " \o modbus_strerror(res),
                      events |-> <<Event("modbus_set_slave", ctx_[o], res)>>]
                ELSE [ret |-> TRUE, last_error |-> last_error_[o],
                      events |-> <<Event("modbus_set_slave", ctx_[o], res)>>]
       IN /\ last_error_' = [last_error_ EXCEPT ![o] = r.last_error]
          /\ call' = Call("set_slave_id", o, 0, r.ret)
          /\ events' = r.events
    /\ UNCHANGED <<alive, ctx_, connected_, transport, moved_from>>
    /\ NoTransfer

set_response_timeout(o) ==
    /\ pc[o] = NoThread
    /\ UNCHANGED pc
    /\ alive[o]
    /\ call' = Call("set_response_timeout", o, 0, TRUE)
    /\ events' = IF ctx_[o] # nullptr
                 THEN <<Event("modbus_set_response_timeout", ctx_[o], OK)>>
                 ELSE <<>>
    /\ UNCHANGED <<alive, ctx_, connected_, last_error_, transport, moved_from>>
    /\ NoTransfer

\* What std::move leaves in the source std::string: the standard says valid
\* but unspecified; libstdc++ and libc++ both leave it empty.
MovedFromString(s) == ""

\* Mutant: the move constructor copies the members and leaves the source as is.
MoveConstructor_keeps_source(o, other) ==
    /\ pc[o] = NoThread
    /\ pc[other] = NoThread
    /\ UNCHANGED pc
    /\ ~alive[o]
    /\ alive[other]
    /\ o # other
    /\ alive' = [alive EXCEPT ![o] = TRUE]
    /\ ctx_' = [ctx_ EXCEPT ![o] = ctx_[other]]
    /\ connected_' = [connected_ EXCEPT ![o] = connected_[other]]
    /\ last_error_' = [last_error_ EXCEPT ![o] = last_error_[other],
                                          ![other] = MovedFromString(last_error_[other])]
    /\ moved_from' = [moved_from EXCEPT ![o] = FALSE, ![other] = TRUE]
    /\ call' = Call("move_constructor", o, other, TRUE)
    /\ events' = <<>>
    /\ UNCHANGED transport
    /\ NoTransfer

\* ModbusConnection(ModbusConnection &&other): o is the new instance.
MoveConstructor(o, other) ==
    /\ pc[o] = NoThread
    /\ pc[other] = NoThread
    /\ UNCHANGED pc
    /\ ~alive[o]
    /\ alive[other]
    /\ o # other
    /\ alive' = [alive EXCEPT ![o] = TRUE]
    /\ ctx_' = [ctx_ EXCEPT ![o] = ctx_[other], ![other] = nullptr]
    /\ connected_' = [connected_ EXCEPT ![o] = connected_[other], ![other] = FALSE]
    /\ last_error_' = [last_error_ EXCEPT ![o] = last_error_[other],
                                          ![other] = MovedFromString(last_error_[other])]
    /\ moved_from' = [moved_from EXCEPT ![o] = FALSE, ![other] = TRUE]
    /\ call' = Call("move_constructor", o, other, TRUE)
    /\ events' = <<>>
    /\ UNCHANGED transport
    /\ NoTransfer

\* Mutant: move assignment overwrites the handle it holds without releasing it.
MoveAssign_without_release(o, other) ==
    /\ pc[o] = NoThread
    /\ pc[other] = NoThread
    /\ UNCHANGED pc
    /\ alive[o]
    /\ alive[other]
    /\ IF o # other
       THEN /\ events' = <<>>
            /\ ctx_' = [ctx_ EXCEPT ![o] = ctx_[other], ![other] = nullptr]
            /\ connected_' = [connected_ EXCEPT ![o] = connected_[other],
                                                ![other] = FALSE]
            /\ last_error_' = [last_error_ EXCEPT
                                 ![o] = last_error_[other],
                                 ![other] = MovedFromString(last_error_[other])]
            /\ moved_from' = [moved_from EXCEPT ![o] = FALSE, ![other] = TRUE]
            /\ UNCHANGED transport
       ELSE /\ events' = <<>>
            /\ UNCHANGED <<ctx_, connected_, last_error_, transport, moved_from>>
    /\ call' = Call("move_assign", o, other, TRUE)
    /\ UNCHANGED alive
    /\ NoTransfer

\* operator=(ModbusConnection &&other) on the instance o.
MoveAssign(o, other) ==
    /\ pc[o] = NoThread
    /\ pc[other] = NoThread
    /\ UNCHANGED pc
    /\ alive[o]
    /\ alive[other]
    /\ IF o # other
       THEN LET t == Teardown(ctx_[o], connected_[o])
            IN /\ transport' = ApplyEvents(transport, t.events)
               /\ events' = t.events
               /\ ctx_' = [ctx_ EXCEPT ![o] = ctx_[other], ![other] = nullptr]
               /\ connected_' = [connected_ EXCEPT ![o] = connected_[other],
                                                   ![other] = FALSE]
               /\ last_error_' = [last_error_ EXCEPT
                                    ![o] = last_error_[other],
                                    ![other] = MovedFromString(last_error_[other])]
               /\ moved_from' = [moved_from EXCEPT ![o] = FALSE, ![other] = TRUE]
       ELSE /\ events' = <<>>
            /\ UNCHANGED <<ctx_, connected_, last_error_, transport, moved_from>>
    /\ call' = Call("move_assign", o, other, TRUE)
    /\ UNCHANGED alive
    /\ NoTransfer

\* ------------------------------------------------------------- the peer
\* The peer of an open socket: it sends n bytes, at most MaxSends times, ...
PeerSend(h, n) ==
    /\ sock[h].fd >= 0
    /\ sock[h].peer = "open"
    /\ sock[h].sends < MaxSends
    /\ sock' = [sock EXCEPT ![h].buffered = @ + n, ![h].sends = @ + 1]
    /\ UNCHANGED <<alive, ctx_, connected_, last_error_, transport, moved_from, pc, call,
                   events, device, last_written, io>>

\* ... closes its end, so that reads meet end of stream behind the buffered bytes,
PeerClose(h) ==
    /\ sock[h].fd >= 0
    /\ sock[h].peer = "open"
    /\ sock' = [sock EXCEPT ![h].peer = "closed"]
    /\ UNCHANGED <<alive, ctx_, connected_, last_error_, transport, moved_from, pc, call,
                   events, device, last_written, io>>

\* ... or resets the connection: the error is pending behind the buffered
\* bytes and is reported to one read.
PeerReset(h) ==
    /\ sock[h].fd >= 0
    /\ sock[h].peer = "open"
    /\ sock' = [sock EXCEPT ![h].peer = "reset", ![h].err = ECONNRESET]
    /\ UNCHANGED <<alive, ctx_, connected_, last_error_, transport, moved_from, pc, call,
                   events, device, last_written, io>>

\* ---------------------------------------------------------- specifications
\* Spec: one session, every errno of the test double, no moves. The payload of
\* the data operations is fixed: address 0, one item, the value the device
\* holds; SpecDevice varies it.
Next ==
    \/ \E o \in SoloObjs, a \in BOOLEAN : Constructor(o, a)
    \/ \E o \in SoloObjs : Destructor(o)
    \/ \E o \in SoloObjs : connect(o)
    \/ \E o \in SoloObjs, err \in ConnectOutcomes : modbus_connect_returns(o, err)
    \/ \E o \in SoloObjs : usleep_returns(o)
    \/ \E o \in SoloObjs : disconnect(o)
    \/ \E o \in SoloObjs : read_register(o, 0, 65535)
    \/ \E o \in SoloObjs : read_registers(o, 0, 1, <<65535>>)
    \/ \E o \in SoloObjs : write_register(o, 0, 0)
    \/ \E o \in SoloObjs : write_registers(o, 0, 1, <<0>>)
    \/ \E o \in SoloObjs : read_coil(o, 0, TRUE)
    \/ \E o \in SoloObjs : read_coils(o, 0, 1, <<1>>)
    \/ \E o \in SoloObjs : write_coil(o, 0, FALSE)
    \/ \E o \in SoloObjs : write_coils(o, 0, 1, <<0>>)
    \/ \E o \in SoloObjs, code \in DataOutcomes : operation_returns(o, code)
    \/ \E o \in SoloObjs : drain_socket_nonblocking(o, TRUE)
    \/ \E o \in SoloObjs : drain_recv(o)
    \/ \E o \in SoloObjs, r \in {OK, EINVAL} : set_slave_id(o, r)
    \/ \E o \in SoloObjs : set_response_timeout(o)

Spec == Init /\ [][Next]_vars

\* SpecOwners: several instances, each with a thread of its own, moves between
\* them, fewer errno values: a thread inside connect() or inside a data
\* operation waits while the threads of the other instances run.
NextOwners ==
    \/ \E o \in Objs, a \in BOOLEAN : Constructor(o, a)
    \/ \E o \in Objs : Destructor(o)
    \/ \E o \in Objs : connect(o)
    \/ \E o \in Objs, err \in FewConnectOutcomes : modbus_connect_returns(o, err)
    \/ \E o \in Objs : usleep_returns(o)
    \/ \E o \in Objs : disconnect(o)
    \/ \E o \in Objs : read_register(o, 0, 65535)
    \/ \E o \in Objs, code \in FewDataOutcomes : operation_returns(o, code)
    \/ \E o \in Objs, r \in {OK} : set_slave_id(o, r)
    \/ \E o \in Objs : set_response_timeout(o)
    \/ \E o \in Objs, p \in Objs : MoveConstructor(o, p)
    \/ \E o \in Objs, p \in Objs : MoveAssign(o, p)

SpecOwners == Init /\ [][NextOwners]_vars

\* The outcomes of the sessions specification (SpecSessions): for a primitive
\* success, a data-layer transient code and a code outside that set; for the
\* open success, would-block and a terminal error.
SessionDataOutcomes == {OK, EMBBADCRC, ETIMEDOUT}
SessionConnectOutcomes == {OK, EAGAIN, ECONNREFUSED}

\* SpecSessions: two instances, each with a thread of its own, and every kind
\* of operation: creation with and without a handle, connect that succeeds,
\* would-block or fails, disconnect, a read and a write that succeed at once,
\* succeed on the retry behind the drain, or fail on the first or on the second
\* attempt, set_slave_id that succeeds or fails, set_response_timeout, both
\* moves in both directions and onto itself, and destruction.
NextSessions ==
    \/ \E o \in PairObjs, a \in BOOLEAN : Constructor(o, a)
    \/ \E o \in PairObjs : Destructor(o)
    \/ \E o \in PairObjs : connect(o)
    \/ \E o \in PairObjs, err \in SessionConnectOutcomes : modbus_connect_returns(o, err)
    \/ \E o \in PairObjs : usleep_returns(o)
    \/ \E o \in PairObjs : disconnect(o)
    \/ \E o \in PairObjs : read_register(o, 0, 65535)
    \/ \E o \in PairObjs : write_coil(o, 0, TRUE)
    \/ \E o \in PairObjs, code \in SessionDataOutcomes : operation_returns(o, code)
    \/ \E o \in PairObjs : drain_socket_nonblocking(o, TRUE)
    \/ \E o \in PairObjs : drain_recv(o)
    \/ \E o \in PairObjs, r \in {OK, EINVAL} : set_slave_id(o, r)
    \/ \E o \in PairObjs : set_response_timeout(o)
    \/ \E o \in PairObjs, p \in PairObjs : MoveConstructor(o, p)
    \/ \E o \in PairObjs, p \in PairObjs : MoveAssign(o, p)

SpecSessions == Init /\ [][NextSessions]_vars

\* The values a caller passes to a batch write of n items: the first item
\* and the others vary over `values`.
WriteBuffers(n, values) ==
    {[i \in 1..n |-> IF i = 1 THEN v ELSE w] : v \in values, w \in values}

\* SpecDevice: one session against the stub device, every address and range
\* of the device and every value written; the output buffers the reads are
\* given hold zeros.
NextDevice ==
    \/ \E o \in SoloObjs : Constructor(o, TRUE)
    \/ \E o \in SoloObjs : connect(o)
    \/ \E o \in SoloObjs : modbus_connect_returns(o, OK)
    \/ \E o \in SoloObjs, a \in Addrs : read_register(o, a, 0)
    \/ \E o \in SoloObjs, r \in Ranges :
          read_registers(o, r[1], r[2], [i \in 1..r[2] |-> 0])
    \/ \E o \in SoloObjs, a \in Addrs, v \in RegValues : write_register(o, a, v)
    \/ \E o \in SoloObjs, r \in Ranges :
          \E vs \in WriteBuffers(r[2], RegValues) : write_registers(o, r[1], r[2], vs)
    \/ \E o \in SoloObjs, a \in Addrs : read_coil(o, a, FALSE)
    \/ \E o \in SoloObjs, r \in Ranges :
          read_coils(o, r[1], r[2], [i \in 1..r[2] |-> 0])
    \/ \E o \in SoloObjs, a \in Addrs, b \in BOOLEAN : write_coil(o, a, b)
    \/ \E o \in SoloObjs, r \in Ranges :
          \E vs \in WriteBuffers(r[2], CoilBytes) : write_coils(o, r[1], r[2], vs)
    \/ \E o \in SoloObjs, code \in DeviceOutcomes : operation_returns(o, code)
    \/ \E o \in SoloObjs : drain_socket_nonblocking(o, TRUE)
    \/ \E o \in SoloObjs : drain_recv(o)

SpecDevice == Init /\ [][NextDevice]_vars

\* SpecDrain: one session, its socket and the peer, which may send, close or
\* reset at any time, also while the thread of the session is inside a data
\* operation and inside the loop of the drain routine. That thread keeps
\* running, hence the weak fairness of the loop's step.
NextDrain ==
    \/ \E o \in SoloObjs, a \in BOOLEAN : Constructor(o, a)
    \/ \E o \in SoloObjs : Destructor(o)
    \/ \E o \in SoloObjs : connect(o)
    \/ \E o \in SoloObjs, err \in DrainConnectOutcomes : modbus_connect_returns(o, err)
    \/ \E o \in SoloObjs : usleep_returns(o)
    \/ \E o \in SoloObjs : disconnect(o)
    \/ \E o \in SoloObjs : read_register(o, 0, 65535)
    \/ \E o \in SoloObjs : write_coil(o, 0, TRUE)
    \/ \E o \in SoloObjs, code \in DeviceOutcomes : operation_returns(o, code)
    \/ \E o \in SoloObjs, s \in BOOLEAN : drain_socket_nonblocking(o, s)
    \/ \E o \in SoloObjs : drain_recv(o)
    \/ \E h \in Handles, n \in SendSizes : PeerSend(h, n)
    \/ \E h \in Handles : PeerClose(h)
    \/ \E h \in Handles : PeerReset(h)

SpecDrain == Init /\ [][NextDrain]_vars /\ WF_vars(\E o \in Objs : drain_recv(o))

\* ------------------------------------------------------------- properties
\* The error prefix and the libmodbus primitive of each data operation.
ErrorPrefix(op) ==
    CASE op = "read_register" -> "Read failed: "
      [] op = "read_registers" -> "Read failed: "
      [] op = "write_register" -> "Write failed: "
      [] op = "write_registers" -> "Write failed: "
      [] op = "read_coil" -> "Read coil failed: "
      [] op = "read_coils" -> "Read coils failed: "
      [] op = "write_coil" -> "Write coil failed: "
      [] op = "write_coils" -> "Write coils failed: "

PrimitiveOf(op) ==
    CASE op = "read_register" -> "modbus_read_registers"
      [] op = "read_registers" -> "modbus_read_registers"
      [] op = "write_register" -> "modbus_write_register"
      [] op = "write_registers" -> "modbus_write_registers"
      [] op = "read_coil" -> "modbus_read_bits"
      [] op = "read_coils" -> "modbus_read_bits"
      [] op = "write_coil" -> "modbus_write_bit"
      [] op = "write_coils" -> "modbus_write_bits"

Primitives == {PrimitiveOf(op) : op \in DataOps}

\* The names of the calls an event sequence holds, in order.
Kinds(evs) == [i \in 1..Len(evs) |-> evs[i].ev]

IsPrimitive(e) == e.ev \in Primitives
IsOpen(e) == e.ev = "modbus_connect"

\* The recorded call may have run against the stub `script`: every invocation
\* it made of the stubbed call (selected by `Is`) reported what the script says.
RanAgainst(script, Is(_)) ==
    LET inv == SelectSeq(events, Is)
    IN \A k \in 1..Len(inv) : inv[k].res = Nth(script, k)

\* The most recent call is a data operation on a session that was connected.
DataCallConnected == call.op \in DataOps /\ call.pre_connected

\* C1: a data operation called while connected is false returns failure, sets
\* last_error to exactly "Not connected" and invokes neither the primitive nor
\* the drain routine (it makes no call at all into the library).
C1_NotConnectedFailsFast ==
    (call.op \in DataOps /\ ~call.pre_connected) =>
        /\ call.ret = FALSE
        /\ last_error_[call.self] = "Not connected"
        /\ events = <<>>

C1_Witness ==
    /\ call.op = "read_coils"
    /\ ~call.pre_connected
    /\ call.pre_ctx # nullptr
    /\ last_error_[call.self] = "Not connected"

\* C2: on a connected session, when the primitive fails first with a data-layer
\* transient code and then succeeds, the operation returns success after exactly
\* primitive, drain, primitive, in this order.
C2_TransientThenSuccess ==
    \A s \in DataScripts :
        (/\ DataCallConnected
         /\ s[1] \in DataTransientCodes
         /\ s[2] = OK
         /\ RanAgainst(s, IsPrimitive)) =>
            /\ call.ret = TRUE
            /\ Kinds(events) = <<PrimitiveOf(call.op), DRAIN, PrimitiveOf(call.op)>>

C2_Witness ==
    /\ call.op = "write_register"
    /\ call.ret = TRUE
    /\ Len(events) = 3
    /\ events[1].res = EMBMDATA
    /\ events[2].ev = DRAIN
    /\ events[3].res = OK

\* C3: on a connected session, when the primitive fails with a data-layer
\* transient code twice, the operation returns failure after exactly primitive,
\* drain, primitive: no third invocation and no drain after the second failure.
C3_TransientTwiceFails ==
    \A s \in DataScripts :
        (/\ DataCallConnected
         /\ s[1] \in DataTransientCodes
         /\ s[2] \in DataTransientCodes
         /\ RanAgainst(s, IsPrimitive)) =>
            /\ call.ret = FALSE
            /\ Kinds(events) = <<PrimitiveOf(call.op), DRAIN, PrimitiveOf(call.op)>>

C3_Witness ==
    /\ call.op = "read_coil"
    /\ call.ret = FALSE
    /\ Len(events) = 3
    /\ events[1].res = EMBBADCRC
    /\ events[2].ev = DRAIN
    /\ events[3].res = EMBUNKEXC

\* C4: on a connected session, when the first invocation fails with a code
\* outside the data-layer transient set, the operation returns failure after
\* that one invocation, without drain, and last_error is the operation's prefix
\* followed by the description of that code.
C4_OtherCodeFailsAtOnce ==
    \A s \in DataScripts :
        (/\ DataCallConnected
         /\ s[1] \notin DataTransientCodes \cup {OK}
         /\ RanAgainst(s, IsPrimitive)) =>
            /\ call.ret = FALSE
            /\ Kinds(events) = <<PrimitiveOf(call.op)>>
            /\ last_error_[call.self] = ErrorPrefix(call.op) \o modbus_strerror(s[1])

C4_Witness ==
    /\ call.op = "write_coils"
    /\ call.ret = FALSE
    /\ events = <<Event("modbus_write_bits", call.pre_ctx, EMBBADSLAVE)>>
    /\ last_error_[call.self] = "Write coils failed: Response not from requested slave"

\* The most recent call is connect() on a disconnected session with a handle.
ConnectCallDisconnected ==
    call.op = "connect" /\ ~call.pre_connected /\ call.pre_ctx # nullptr

\* k open attempts with one sleep between each two of them.
OpensWithSleeps(k) ==
    [i \in 1..(2 * k - 1) |-> IF i % 2 = 1 THEN "modbus_connect" ELSE "usleep"]

\* C5: connect() on an already connected session returns success, attempts no
\* open, does not sleep and leaves connected, the handle and last_error as they
\* were; so does every further connect() that follows it.
C5_ConnectIdempotent ==
    [][(call'.op = "connect" /\ connected_[call'.self]) =>
          /\ call'.ret = TRUE
          /\ events' = <<>>
          /\ connected_' = connected_
          /\ ctx_' = ctx_
          /\ last_error_' = last_error_
          /\ transport' = transport]_vars

C5_Witness ==
    /\ call.op = "connect"
    /\ call.pre_connected
    /\ call.ret = TRUE
    /\ events = <<>>
    /\ last_error_[call.self] = "Read failed: Invalid CRC"

\* C6: connect() on a disconnected session with a valid handle, when the open
\* reports would-block twice and then succeeds, returns success with connected
\* set after exactly three opens and two sleeps, each sleep between two opens.
C6_WouldBlockTwiceThenOpen ==
    (ConnectCallDisconnected /\ RanAgainst(<<EAGAIN, EAGAIN, OK>>, IsOpen)) =>
        /\ call.ret = TRUE
        /\ connected_[call.self]
        /\ Kinds(events) = OpensWithSleeps(3)
        /\ transport[call.pre_ctx] = "open"

C6_Witness ==
    /\ call.op = "connect"
    /\ call.ret = TRUE
    /\ connected_[call.self]
    /\ Len(events) = 5
    /\ events[1].res = EAGAIN
    /\ events[3].res = EAGAIN
    /\ events[5].res = OK

\* C7: connect(), when the open reports would-block on all three attempts,
\* returns failure with connected false after exactly three opens and two
\* sleeps, none after the last open and no fourth open, and last_error is
\* "Connection failed: " followed by the description of would-block.
C7_WouldBlockThriceFails ==
    (ConnectCallDisconnected /\ RanAgainst(<<EAGAIN, EAGAIN, EAGAIN>>, IsOpen)) =>
        /\ call.ret = FALSE
        /\ ~connected_[call.self]
        /\ Kinds(events) = OpensWithSleeps(3)
        /\ last_error_[call.self] = "Connection failed: " \o modbus_strerror(EAGAIN)
        /\ transport[call.pre_ctx] = "closed"

C7_Witness ==
    /\ call.op = "connect"
    /\ call.ret = FALSE
    /\ Len(events) = 5
    /\ events[5].res = EAGAIN
    /\ last_error_[call.self] = "Connection failed: Resource temporarily unavailable"

\* C8: on whichever attempt k the open fails with an error other than
\* would-block, connect() returns failure at once: k opens, no open and no sleep
\* after the k-th, connected false, and last_error is "Connection failed: "
\* followed by the description of that error.
C8_OtherOpenErrorIsTerminal ==
    \A k \in 1..3 : \A s \in ConnectScripts :
        (/\ ConnectCallDisconnected
         /\ \A j \in 1..(k - 1) : s[j] = EAGAIN
         /\ s[k] \notin {OK, EAGAIN, EWOULDBLOCK}
         /\ RanAgainst(s, IsOpen)) =>
            /\ call.ret = FALSE
            /\ ~connected_[call.self]
            /\ Kinds(events) = OpensWithSleeps(k)
            /\ last_error_[call.self] = "Connection failed: " \o modbus_strerror(s[k])
            /\ transport[call.pre_ctx] = "closed"

C8_Witness ==
    /\ call.op = "connect"
    /\ call.ret = FALSE
    /\ Len(events) = 3
    /\ events[1].res = EAGAIN
    /\ events[3].res = ETIMEDOUT
    /\ last_error_[call.self] = "Connection failed: Connection timed out"

\* C9: move construction from a connected session leaves the source
\* disconnected with a null handle and the new instance connected on the same
\* handle; destroying a moved-from instance makes no close and no free;
\* destroying a connected instance makes exactly one close followed by exactly
\* one free of its handle.
C9_MoveThenDestroy ==
    [][/\ (call'.op = "move_constructor" /\ connected_[call'.other]) =>
              /\ ~connected_'[call'.other]
              /\ ctx_'[call'.other] = nullptr
              /\ connected_'[call'.self]
              /\ ctx_'[call'.self] = ctx_[call'.other]
       /\ (call'.op = "~ModbusConnection" /\ moved_from[call'.self]) =>
              /\ events' = <<>>
              /\ transport' = transport
       /\ (call'.op = "~ModbusConnection" /\ connected_[call'.self]) =>
              /\ events' = <<Event("modbus_close", ctx_[call'.self], OK),
                             Event("modbus_free", ctx_[call'.self], OK)>>
              /\ transport'[ctx_[call'.self]] = "unallocated"]_vars

\* The moved-from instance was destroyed while the instance that took its
\* connected session is still alive and connected.
C9_Witness ==
    /\ call.op = "~ModbusConnection"
    /\ call.pre_moved_from
    /\ events = <<>>
    /\ \E o \in Objs : alive[o] /\ connected_[o]

\* C10: in every reachable state, connected == true implies that the handle is
\* non-null and that the transport behind it is open.
C10_ConnectedImpliesOpen ==
    \A o \in Objs :
        connected_[o] => (alive[o] /\ ctx_[o] # nullptr /\ transport[ctx_[o]] = "open")

\* A connected session was move-assigned the connected session of another
\* instance, on which a write had failed on its second attempt.
C10_Witness ==
    /\ call.op = "move_assign"
    /\ call.self # call.other
    /\ call.pre_connected
    /\ connected_[call.self]
    /\ transport[ctx_[call.self]] = "open"
    /\ last_error_[call.self] = "Write coil failed: Invalid CRC"

\* The most recent call tore down what its instance held: the destructor, or
\* move assignment from another instance.
TeardownCall ==
    \/ call.op = "~ModbusConnection"
    \/ call.op = "move_assign" /\ call.self # call.other

\* C11: every allocated handle is held by exactly one live instance (never by
\* two, never by none, so none is left allocated once all instances are
\* destroyed), no handle is freed twice or closed after it was freed, a held
\* handle is an allocated one, a teardown frees the handle it held exactly once
\* and closes it first when the instance was connected, and a data
\* operation uses only an open handle: the handle of a thread that is inside
\* a data operation stays open, and inside connect() it stays allocated.
C11_ExclusiveOwnership ==
    /\ \A o1 \in Objs, o2 \in Objs :
          (o1 # o2 /\ ctx_[o1] # nullptr) => ctx_[o1] # ctx_[o2]
    /\ \A h \in Handles :
          /\ transport[h] \in {"unallocated", "closed", "open"}
          /\ transport[h] # "unallocated" <=> \E o \in Objs : alive[o] /\ ctx_[o] = h
    /\ TeardownCall =>
          events = (IF call.pre_connected
                    THEN <<Event("modbus_close", call.pre_ctx, OK)>> ELSE <<>>)
                   \o (IF call.pre_ctx # nullptr
                       THEN <<Event("modbus_free", call.pre_ctx, OK)>> ELSE <<>>)
    /\ \A i \in 1..Len(events) :
          IsPrimitive(events[i]) => transport[events[i].h] = "open"
    /\ \A o \in Objs :
          /\ pc[o].op \in DataOps =>
                 alive[o] /\ ctx_[o] # nullptr /\ transport[ctx_[o]] = "open"
          /\ pc[o].op = "connect" =>
                 alive[o] /\ ctx_[o] # nullptr /\ transport[ctx_[o]] = "closed"

\* Move assignment released the connected handle of its target and gave it the
\* handle of the source.
C11_Witness ==
    /\ call.op = "move_assign"
    /\ call.self # call.other
    /\ call.pre_connected
    /\ Len(events) = 2
    /\ ctx_[call.self] # nullptr
    /\ ctx_[call.self] # call.pre_ctx
    /\ transport[call.pre_ctx] = "unallocated"

\* The operations that report a result: connect, set_slave_id and the eight
\* data operations.
ResultOps == {"connect", "set_slave_id"} \cup DataOps

\* C13 (as stated): after an allocation failure the handle is null and
\* last_error is set, and connect, set_slave_id and each data operation on the
\* null handle fails with the invalid-context message and makes no library call.
C13_AllFailInvalidContext ==
    /\ (call.op = "ModbusConnection" /\ events[1].res # OK) =>
           /\ ctx_[call.self] = nullptr
           /\ last_error_[call.self] # ""
    /\ (call.op \in ResultOps /\ call.pre_ctx = nullptr) =>
           /\ call.ret = FALSE
           /\ events = <<>>
           /\ last_error_[call.self] = "Invalid MODBUS context"

\* C13 (amended): after an allocation failure the handle is null and last_error
\* is "Failed to create MODBUS context"; on the null handle connect and
\* set_slave_id fail with "Invalid MODBUS context", each of the eight data
\* operations fails with "Not connected", and none of them makes a library call.
C13_NullHandleFailsFast ==
    /\ (call.op = "ModbusConnection" /\ events[1].res # OK) =>
           /\ ctx_[call.self] = nullptr
           /\ last_error_[call.self] = "Failed to create MODBUS context"
    /\ (call.op \in ResultOps /\ call.pre_ctx = nullptr) =>
           /\ call.ret = FALSE
           /\ events = <<>>
           /\ last_error_[call.self] = IF call.op \in DataOps
                                       THEN "Not connected"
                                       ELSE "Invalid MODBUS context"

C13_Witness ==
    /\ call.op = "write_coil"
    /\ alive[call.self]
    /\ call.pre_ctx = nullptr
    /\ call.ret = FALSE
    /\ last_error_[call.self] = "Not connected"

\* C14: disconnect() on a session that is not connected (or holds no handle)
\* makes no library call and changes nothing; on a connected session it calls
\* modbus_close once and clears connected, leaving handle and last_error alone;
\* a disconnect() that follows a disconnect() closes nothing.
C14_DisconnectOnce ==
    [][call'.op = "disconnect" =>
        LET o == call'.self
        IN /\ ctx_' = ctx_
           /\ last_error_' = last_error_
           /\ alive' = alive
           /\ IF connected_[o] /\ ctx_[o] # nullptr
              THEN /\ events' = <<Event("modbus_close", ctx_[o], OK)>>
                   /\ connected_' = [connected_ EXCEPT ![o] = FALSE]
                   /\ transport' = [transport EXCEPT ![ctx_[o]] = "closed"]
              ELSE /\ events' = <<>>
                   /\ connected_' = connected_
                   /\ transport' = transport
           /\ call.op = "disconnect" => events' = <<>>]_vars

\* disconnect() closed a connected session that still shows an earlier failure.
C14_Witness ==
    /\ call.op = "disconnect"
    /\ call.pre_connected
    /\ events = <<Event("modbus_close", ctx_[call.self], OK)>>
    /\ ~connected_[call.self]
    /\ last_error_[call.self] = "Set slave failed: Invalid argument"

\* A step of a data operation other than its successful return.
FailingDataStep ==
    \/ call'.op \in DataOps /\ ~call'.ret
    \/ call'.op = RUNNING /\ \E o \in Objs : pc'[o].op \in DataOps

\* C15: a data operation that returns failure leaves the connected flag, the
\* handle and the transport of every session as they were, in the step in which
\* it returns and in every step it took before.
C15_FailureKeepsSession ==
    [][FailingDataStep =>
           /\ connected_' = connected_
           /\ ctx_' = ctx_
           /\ alive' = alive
           /\ transport' = transport]_vars

\* Both attempts of a read failed and the session is still connected.
C15_Witness ==
    /\ call.op = "read_registers"
    /\ call.ret = FALSE
    /\ Len(SelectSeq(events, IsPrimitive)) = 2
    /\ connected_[call.self]
    /\ transport[ctx_[call.self]] = "open"

\* C17: when a data operation fails on its second attempt, last_error is the
\* operation's prefix followed by the description of the code the second
\* attempt reported; and no session's last_error is ever a prefix followed by
\* "retry exhausted".
C17_SecondAttemptMessage ==
    /\ \A s \in DataScripts :
          (/\ DataCallConnected
           /\ RanAgainst(s, IsPrimitive)
           /\ Len(SelectSeq(events, IsPrimitive)) = 2
           /\ call.ret = FALSE) =>
              last_error_[call.self] = ErrorPrefix(call.op) \o modbus_strerror(s[2])
    /\ \A o \in Objs, op \in DataOps :
          last_error_[o] # ErrorPrefix(op) \o "retry exhausted"

\* The second attempt failed with a code other than that of the first attempt.
C17_Witness ==
    /\ call.op = "write_coils"
    /\ call.ret = FALSE
    /\ Len(events) = 3
    /\ events[1].res = EMBBADCRC
    /\ events[3].res = EMBXILADD
    /\ last_error_[call.self] = "Write coils failed: Illegal data address"

\* C18 (as stated): a session whose allocation has just failed keeps its null
\* handle, whatever is done next, until it is destroyed.
C18_UninitializedIsDeadEnd ==
    [][\A o \in Objs :
          (/\ call.op = "ModbusConnection"
           /\ call.self = o
           /\ ctx_[o] = nullptr
           /\ alive'[o]) =>
              /\ ctx_'[o] = nullptr
              /\ ~connected_'[o]]_vars

\* C18 (amended): a session whose handle is null keeps the null handle and
\* stays unconnected under every operation except a move assignment to it from
\* another session; destruction ends it.
C18_OnlyMoveAssignLeavesUninitialized ==
    [][\A o \in Objs :
          (/\ alive[o]
           /\ ctx_[o] = nullptr
           /\ alive'[o]
           /\ ~(call'.op = "move_assign" /\ call'.self = o /\ call'.other # o)) =>
              /\ ctx_'[o] = nullptr
              /\ ~connected_'[o]]_vars

\* connect() was refused on a session whose allocation failed.
C18_Witness ==
    /\ call.op = "connect"
    /\ call.pre_ctx = nullptr
    /\ ~call.pre_moved_from
    /\ call.ret = FALSE
    /\ alive[call.self]
    /\ ctx_[call.self] = nullptr
    /\ ~connected_[call.self]

\* C20: a connect(), set_slave_id() or data operation that returns success
\* leaves last_error of every session exactly as it was: no step of a call
\* writes it but the one in which the call returns failure.
C20_SuccessKeepsLastError ==
    [][(call'.op = RUNNING \/ (call'.op \in ResultOps /\ call'.ret)) =>
           last_error_' = last_error_]_vars

\* A read succeeded on its retried attempt and last_error still holds the
\* message of an earlier failed connect.
C20_Witness ==
    /\ call.op = "read_coil"
    /\ call.ret = TRUE
    /\ Len(events) = 3
    /\ events[2].ev = DRAIN
    /\ last_error_[call.self] = "Connection failed: Connection refused"

ReadOps == {"read_register", "read_registers", "read_coil", "read_coils"}

\* C12: on a connected session a successful read_register(a) yields the value
\* of the latest successful write to a (by write_register or write_registers;
\* the value the device was set up with when there was none), and a successful
\* read_coil(a) yields the state of the latest successful write to the coil a,
\* whether the read or the write succeeded at once or on the retried attempt.
C12_RoundTrip ==
    /\ (call.op = "read_register" /\ call.ret) =>
           io.post = <<last_written.regs[io.addr]>>
    /\ (call.op = "read_coil" /\ call.ret) =>
           io.post = <<last_written.coils[io.addr]>>

\* A read that succeeded on its retried attempt returned a value that only a
\* write can have put at the highest address.
C12_Witness ==
    /\ call.op = "read_register"
    /\ call.ret = TRUE
    /\ Len(events) = 3
    /\ io.addr = MaxAddr
    /\ io.pre = <<0>>
    /\ io.post = <<65535>>
    /\ device.regs[0] = 0

\* C16: a read operation that returns failure leaves the caller's output
\* value or buffer as it was before the call.
C16_OutputOnlyOnSuccess ==
    (call.op \in ReadOps /\ ~call.ret) => io.post = io.pre

\* Both attempts of a batch read failed and the buffer still holds what the
\* caller put there, which is not what the device holds.
C16_Witness ==
    /\ call.op = "read_registers"
    /\ call.ret = FALSE
    /\ Len(events) = 3
    /\ io.nb = MaxAddr + 1
    /\ io.post = io.pre
    /\ io.post # modbus_read_registers(device, io.addr, io.nb)

\* The thread of o takes a step of the drain routine, its entry or one
\* iteration of its loop: it changes position or discards bytes.
DrainStep(o) ==
    /\ pc[o].at \in {DRAIN, "recv"}
    /\ \/ pc'[o] # pc[o]
       \/ sock'[ctx_[o]].discarded # sock[ctx_[o]].discarded

\* C19: once in its loop the drain routine returns, given that the peer sends
\* a bounded number of times; each of its steps leaves connected, handle,
\* last_error and the context as they were; it calls recv not at all when the
\* descriptor is invalid; it goes round again exactly after a read that
\* returned bytes, which it discards; so it returns at the first would-block,
\* end of stream or error, and then nothing is left buffered.
C19_DrainTerminates ==
    /\ \A o \in Objs : (pc[o].at = "recv") ~> (pc[o].at # "recv")
    /\ [][\A o \in Objs : DrainStep(o) =>
            /\ connected_' = connected_
            /\ ctx_' = ctx_
            /\ last_error_' = last_error_
            /\ alive' = alive
            /\ transport' = transport]_vars
    /\ [](\A o \in Objs : pc[o].at = "recv" => pc[o].socket_fd >= 0)
    /\ [][\A o \in Objs : DrainStep(o) =>
            LET h == ctx_[o]
            IN /\ (pc[o].at = DRAIN /\ pc'[o].socket_fd < 0) =>
                      /\ pc'[o].at = "operation"
                      /\ sock' = sock
               /\ pc[o].at = "recv" =>
                      IF pc'[o].at = "recv"
                      THEN /\ sock[h].buffered > 0
                           /\ sock'[h].buffered < sock[h].buffered
                           /\ sock'[h].discarded - sock[h].discarded
                                 = sock[h].buffered - sock'[h].buffered
                      ELSE /\ sock[h].buffered = 0
                           /\ sock'[h].buffered = 0
                           /\ sock'[h].discarded = sock[h].discarded]_vars

\* A data operation returned whose drain had discarded, in more than two
\* reads, more bytes than the peer sends at once and had then met the reset of
\* the connection; nothing is buffered.
C19_Witness ==
    /\ call.op \in DataOps
    /\ Len(events) = 3
    /\ events[2].ev = DRAIN
    /\ connected_[call.self]
    /\ \E h \in Handles : /\ h = ctx_[call.self]
                          /\ sock[h].discarded > 2 * buffer_size + 1
                          /\ sock[h].buffered = 0
                          /\ sock[h].peer = "reset"
                          /\ sock[h].err = OK

====
